---- MODULE Spec2Model ----
(***************************************************************************)
(* Model of app.py (MRTS Search, SQLite): the query tokenizer, the FTS     *)
(* query builder, the table-hit grouping, the table-text parser and        *)
(* renderer, and the Streamlit script run with its cached resources.       *)
(* Strings are sequences of one-character strings.                         *)
(***************************************************************************)
EXTENDS Integers, Sequences, FiniteSets, TLC

VARIABLES
    pc,        \* position of the pure-function call under check: "call" | "return"
    q,            \* tokenize: the argument
    tokens,       \* tokenize: the returned list
    ftsTokens,    \* build_fts_query: the tokens argument
    require_all,  \* build_fts_query: the require_all argument
    fts_q,        \* build_fts_query: the returned string
    df,           \* group_tables: the argument
    grouped,      \* group_tables: the returned frame
    value_text,   \* parse_table_text, render_table_value_text: the argument
    detailed,     \* render_table_value_text: the detailed argument
    parsed,       \* how the call of parse_table_text ended
    screen,       \* render_table_value_text: the Streamlit elements it emitted
    dirExists,    \* the script: os.path.isdir(DATA_DIR)
    fileExists,   \* the script: os.path.isfile(DB_PATH)
    dbTables,     \* the script: whether the database holds the tables and FTS tables
    mrtsCache,    \* st.cache_data of get_mrts_list: whether a value is cached
    mrtsLock,     \* the session computing get_mrts_list under the cache's lock, or 0
    connCache,    \* st.cache_resource of get_conn: the cached connection, or 0
    conns,        \* the connections opened so far: kind, open, executions that used it
    sess          \* per browser session: the script run in progress or last ended

tkVars == <<q, tokens>>
ftsVars == <<ftsTokens, require_all, fts_q>>
grpVars == <<df, grouped>>
txtVars == <<value_text, detailed, parsed, screen>>
uiVars == <<dirExists, fileExists, dbTables, mrtsCache, mrtsLock, connCache, conns, sess>>
vars == <<pc, tkVars, ftsVars, grpVars, txtVars, uiVars>>

\* the variables of an operation that is not the one under check
TkIdle == q = <<>> /\ tokens = <<>>
FtsIdle == ftsTokens = <<>> /\ require_all = FALSE /\ fts_q = <<>>
GrpIdle == df = <<>> /\ grouped = <<>>
TxtIdle == value_text = <<>> /\ detailed = FALSE /\ parsed = <<>> /\ screen = <<>>
UiIdle ==
    /\ dirExists = FALSE /\ fileExists = FALSE /\ dbTables = FALSE
    /\ mrtsCache = FALSE /\ mrtsLock = 0 /\ connCache = 0 /\ conns = <<>> /\ sess = <<>>

-----------------------------------------------------------------------------
(* Characters and strings                                                  *)

UpperLetters ==
    <<"A","B","C","D","E","F","G","H","I","J","K","L","M",
      "N","O","P","Q","R","S","T","U","V","W","X","Y","Z">>

LowerLetters ==
    <<"a","b","c","d","e","f","g","h","i","j","k","l","m",
      "n","o","p","q","r","s","t","u","v","w","x","y","z">>

Digits == {"0","1","2","3","4","5","6","7","8","9"}

\* the regex class [a-z0-9]
LowerAlnum == {LowerLetters[i] : i \in 1..26} \cup Digits

\* the regex class \s and the characters str.strip() removes
Whitespace == {" ", "\t", "\n", "\r"}

Range(s) == {s[i] : i \in 1..Len(s)}

\* str.lower() on one character
LowerChar(c) ==
    IF \E i \in 1..26 : UpperLetters[i] = c
    THEN LowerLetters[CHOOSE i \in 1..26 : UpperLetters[i] = c]
    ELSE c

StrLower(s) == [i \in 1..Len(s) |-> LowerChar(s[i])]

\* str.strip(): drop leading and trailing whitespace
StrStrip(s) ==
    IF \A i \in 1..Len(s) : s[i] \in Whitespace THEN <<>>
    ELSE LET lo == CHOOSE i \in 1..Len(s) :
                      s[i] \notin Whitespace /\ \A j \in 1..(i - 1) : s[j] \in Whitespace
             hi == CHOOSE i \in 1..Len(s) :
                      s[i] \notin Whitespace /\ \A j \in (i + 1)..Len(s) : s[j] \in Whitespace
         IN  SubSeq(s, lo, hi)

\* s.replace("\r", " ")
ReplaceCR(s) == [i \in 1..Len(s) |-> IF s[i] = "\r" THEN " " ELSE s[i]]

\* re.sub(r"[ \t]+", " ", s): every maximal run of blanks and tabs becomes one blank
RECURSIVE CollapseBlanks(_)
CollapseBlanks(s) ==
    IF s = <<>> THEN <<>>
    ELSE IF Head(s) \in {" ", "\t"}
         THEN IF Len(s) >= 2 /\ s[2] \in {" ", "\t"}
              THEN CollapseBlanks(Tail(s))
              ELSE <<" ">> \o CollapseBlanks(Tail(s))
         ELSE <<Head(s)>> \o CollapseBlanks(Tail(s))

\* length of the maximal whitespace run that starts at s[1]
RECURSIVE WsRunLen(_)
WsRunLen(s) ==
    IF s = <<>> \/ Head(s) \notin Whitespace THEN 0 ELSE 1 + WsRunLen(Tail(s))

\* re.sub(r"\n\s*\n+", "\n\n", s): from a newline, the whitespace up to the last
\* newline of the run (when there is a second one) becomes two newlines
RECURSIVE CollapseBlankLines(_)
CollapseBlankLines(s) ==
    IF s = <<>> THEN <<>>
    ELSE IF Head(s) = "\n"
         THEN LET n == WsRunLen(s)
                  nl == {i \in 2..n : s[i] = "\n"}
              IN  IF nl = {} THEN <<"\n">> \o CollapseBlankLines(Tail(s))
                  ELSE LET last == CHOOSE i \in nl : \A j \in nl : j <= i
                       IN  <<"\n", "\n">> \o CollapseBlankLines(SubSeq(s, last + 1, Len(s)))
         ELSE <<Head(s)>> \o CollapseBlankLines(Tail(s))

norm(s) == StrStrip(CollapseBlankLines(CollapseBlanks(ReplaceCR(s))))

-----------------------------------------------------------------------------
(* tokenize                                                                *)

STOPWORDS == {
    <<"w","h","a","t">>, <<"h","o","w">>, <<"w","h","e","n">>, <<"w","h","e","r","e">>,
    <<"w","h","y">>, <<"w","h","o">>, <<"i","s">>, <<"a","r","e">>, <<"w","a","s">>,
    <<"w","e","r","e">>, <<"d","o">>, <<"d","o","e","s">>, <<"d","i","d">>,
    <<"t","h","e">>, <<"a">>, <<"a","n">>, <<"a","n","d">>, <<"o","r">>, <<"t","o">>,
    <<"f","o","r">>, <<"o","f">>, <<"i","n">>, <<"o","n">>, <<"a","t">>, <<"b","y">>,
    <<"b","e","t","w","e","e","n">>, <<"i","n","t","o">>, <<"w","i","t","h","i","n">>,
    <<"f","r","o","m">>, <<"a","s">>, <<"i","t">>, <<"t","h","i","s">>,
    <<"t","h","a","t">>, <<"t","h","e","s","e">>, <<"t","h","o","s","e">>,
    <<"s","h","o","w">>, <<"t","e","l","l">>, <<"g","i","v","e">>,
    <<"p","l","e","a","s","e">>, <<"r","e","q","u","i","r","e","d">>,
    <<"r","e","q","u","i","r","e","m","e","n","t">>,
    <<"r","e","q","u","i","r","e","m","e","n","t","s">>, <<"m","i","n">>,
    <<"m","i","n","i","m","u","m">>, <<"m","a","x">>, <<"m","a","x","i","m","u","m">>
}

\* length of the maximal run of [a-z0-9] that starts at s[1]
RECURSIVE AlnumRunLen(_)
AlnumRunLen(s) ==
    IF s = <<>> \/ Head(s) \notin LowerAlnum THEN 0 ELSE 1 + AlnumRunLen(Tail(s))

\* length of the greedy match of (?:\.[a-z0-9]+)* at s[1]
RECURSIVE DottedTailLen(_)
DottedTailLen(s) ==
    IF Len(s) >= 2 /\ s[1] = "." /\ s[2] \in LowerAlnum
    THEN LET n == 1 + AlnumRunLen(Tail(s))
         IN  n + DottedTailLen(SubSeq(s, n + 1, Len(s)))
    ELSE 0

\* re.findall(r"[a-z0-9]+(?:\.[a-z0-9]+)*", s): leftmost non-overlapping matches
RECURSIVE FindallWords(_)
FindallWords(s) ==
    IF s = <<>> THEN <<>>
    ELSE IF Head(s) \in LowerAlnum
         THEN LET a == AlnumRunLen(s)
                  n == a + DottedTailLen(SubSeq(s, a + 1, Len(s)))
              IN  <<SubSeq(s, 1, n)>> \o FindallWords(SubSeq(s, n + 1, Len(s)))
         ELSE FindallWords(Tail(s))

\* [t for t in raw if t not in STOPWORDS and len(t) >= 2]
KeepToken(t) == t \notin STOPWORDS /\ Len(t) >= 2

FilterTokens(raw) == SelectSeq(raw, KeepToken)

\* the de-dup loop: append t unless it was seen
RECURSIVE DedupLoop(_, _)
DedupLoop(out, rest) ==
    IF rest = <<>> THEN out
    ELSE IF Head(rest) \in Range(out)
         THEN DedupLoop(out, Tail(rest))
         ELSE DedupLoop(Append(out, Head(rest)), Tail(rest))

\* the loop without its "if t not in seen" test
DedupKeepOrder_NoSeenTest(ts) == ts

DedupKeepOrder(ts) == DedupLoop(<<>>, ts)

RawWords(s) == FindallWords(StrLower(norm(s)))

tokenize(s) == DedupKeepOrder(FilterTokens(RawWords(s)))

-----------------------------------------------------------------------------------------------------------------------------------------------------
(* Specification of a tokenize call                                        *)

MaxPieces == 5

\* a query is a concatenation of at most MaxPieces of these
QueryPieces ==
    {<<"a">>, <<"s">>, <<"I">>, <<"s","s">>, <<"s","a">>, <<".">>, <<"?">>, <<" ">>}

RECURSIVE Concat(_)
Concat(ss) == IF ss = <<>> THEN <<>> ELSE Head(ss) \o Concat(Tail(ss))

Queries == {Concat(ps) : ps \in UNION {[1..k -> QueryPieces] : k \in 0..MaxPieces}}

InitTokenize ==
    /\ pc = "call"
    /\ q \in Queries
    /\ tokens = <<>>
    /\ FtsIdle /\ GrpIdle /\ TxtIdle /\ UiIdle

Tokenize ==
    /\ pc = "call"
    /\ tokens' = tokenize(q)
    /\ pc' = "return"
    /\ UNCHANGED <<q, ftsVars, grpVars, txtVars, uiVars>>

NextTokenize == Tokenize

SpecTokenize == InitTokenize /\ [][NextTokenize]_vars

-----------------------------------------------------------------------------
(* C1: properties of tokenize                                              *)

\* t stands in s at position p as a whole word: not continued to the left or to
\* the right by a letter or digit, nor by a dot that joins one
OccursAt(t, s, p) ==
    /\ p >= 1 /\ p + Len(t) - 1 <= Len(s)
    /\ SubSeq(s, p, p + Len(t) - 1) = t
    /\ p > 1 => s[p - 1] \notin LowerAlnum
    /\ p > 2 => ~(s[p - 1] = "." /\ s[p - 2] \in LowerAlnum)
    /\ LET e == p + Len(t) - 1
       IN  /\ e < Len(s) => s[e + 1] \notin LowerAlnum
           /\ e + 1 < Len(s) => ~(s[e + 1] = "." /\ s[e + 2] \in LowerAlnum)

Occurrences(t, s) == {p \in 1..Len(s) : OccursAt(t, s, p)}

FirstOccurrence(t, s) ==
    CHOOSE p \in Occurrences(t, s) : \A r \in Occurrences(t, s) : p <= r

\* the maximal runs of letters and digits of s, as (first, last) positions
AlnumRuns(s) ==
    {<<a, b>> \in (1..Len(s)) \X (1..Len(s)) :
        /\ a <= b
        /\ \A i \in a..b : s[i] \in LowerAlnum
        /\ a > 1 => s[a - 1] \notin LowerAlnum
        /\ b < Len(s) => s[b + 1] \notin LowerAlnum}

\* s is made only of stop-words, one-character words and other characters
OnlyStopShortPunct(s) ==
    \A r \in AlnumRuns(s) : r[1] = r[2] \/ SubSeq(s, r[1], r[2]) \in STOPWORDS

\* no dot stands directly between two letters or digits
NoDotJoin(s) ==
    \A i \in 2..(Len(s) - 1) :
        ~(s[i] = "." /\ s[i - 1] \in LowerAlnum /\ s[i + 1] \in LowerAlnum)

TokensWellFormed ==
    /\ \A i \in 1..Len(tokens) :
          /\ Range(tokens[i]) \subseteq LowerAlnum \cup {"."}
          /\ Len(tokens[i]) >= 2
          /\ tokens[i] \notin STOPWORDS
    /\ \A i, j \in 1..Len(tokens) : i # j => tokens[i] # tokens[j]
    /\ \A i \in 1..Len(tokens) : Occurrences(tokens[i], StrLower(q)) # {}
    /\ \A i, j \in 1..Len(tokens) :
          i < j => FirstOccurrence(tokens[i], StrLower(q))
                     < FirstOccurrence(tokens[j], StrLower(q))

\* C1 (as amended): every token returned by tokenize is lower-case, at least two
\* characters long and no stop-word, no token occurs twice, the tokens stand in
\* the order of their first occurrence in the query, and a query made only of
\* stop-words, one-character words and punctuation yields the empty list when
\* no dot directly joins two letters or digits.
C1_Tokenize ==
    pc = "return" =>
        /\ TokensWellFormed
        /\ (OnlyStopShortPunct(StrLower(q)) /\ NoDotJoin(StrLower(q))) => tokens = <<>>

\* C1 as stated: the same, for every query made only of stop-words,
\* one-character words and punctuation.
C1_Tokenize_AsStated ==
    pc = "return" =>
        /\ TokensWellFormed
        /\ OnlyStopShortPunct(StrLower(q)) => tokens = <<>>

\* a query in which the first word comes back after a second one was tokenized
\* into two tokens
C1_Witness ==
    /\ pc = "return"
    /\ Len(tokens) = 2
    /\ Len(RawWords(q)) = 3
    /\ RawWords(q)[1] = RawWords(q)[3]
    /\ RawWords(q)[1] = tokens[1]

-----------------------------------------------------------------------------
(* build_fts_query                                                         *)

Quote == "\""   \* chr(34)

JoinerAnd == <<" ", "A", "N", "D", " ">>
JoinerOr == <<" ", "O", "R", " ">>

\* t.replace(chr(34), "")
RemoveQuotes(t) == SelectSeq(t, LAMBDA c : c # Quote)

\* f'"{...}"'
Quoted(t) == <<Quote>> \o RemoveQuotes(t) \o <<Quote>>

\* str.join
RECURSIVE StrJoin(_, _)
StrJoin(sep, ss) ==
    IF ss = <<>> THEN <<>>
    ELSE IF Len(ss) = 1 THEN ss[1]
    ELSE ss[1] \o sep \o StrJoin(sep, Tail(ss))

\* the joiner with the two branches exchanged
Joiner_Swapped(all) == IF all THEN JoinerOr ELSE JoinerAnd

Joiner(all) == IF all THEN JoinerAnd ELSE JoinerOr

build_fts_query(ts, all) ==
    IF ts = <<>> THEN <<>>
    ELSE StrJoin(Joiner(all), [i \in 1..Len(ts) |-> Quoted(ts[i])])

-----------------------------------------------------------------------------
(* Specification of a build_fts_query call, on the token lists that        *)
(* search_clauses and search_tables pass to it: the results of tokenize    *)

MaxTokens == 3

TokenSamples ==
    {<<"s","s">>, <<"s","a">>, <<"s",".","s">>, <<"a","1">>, <<"9",".","2",".","1">>}

\* the lists of at most MaxTokens samples that tokenize returns for the query
\* that names them one after the other
TokenLists ==
    {ts \in UNION {[1..k -> TokenSamples] : k \in 0..MaxTokens} :
        tokenize(StrJoin(<<" ">>, ts)) = ts}

InitFts ==
    /\ pc = "call"
    /\ ftsTokens \in TokenLists
    /\ require_all \in BOOLEAN
    /\ fts_q = <<>>
    /\ TkIdle /\ GrpIdle /\ TxtIdle /\ UiIdle

BuildFtsQuery ==
    /\ pc = "call"
    /\ fts_q' = build_fts_query(ftsTokens, require_all)
    /\ pc' = "return"
    /\ UNCHANGED <<ftsTokens, require_all, tkVars, grpVars, txtVars, uiVars>>

NextFts == BuildFtsQuery

SpecFts == InitFts /\ [][NextFts]_vars

-----------------------------------------------------------------------------
(* C2: properties of build_fts_query                                       *)

HasPrefix(s, p) == Len(s) >= Len(p) /\ SubSeq(s, 1, Len(p)) = p

\* Reads s as quoted terms separated by sep: a quote, the characters up to the
\* next quote, then the end or sep and another term. The terms read, or
\* <<"malformed">> in front of them when s has no such form.
RECURSIVE ReadTerms(_, _)
ReadTerms(s, sep) ==
    IF s = <<>> \/ Head(s) # Quote THEN <<"malformed">>
    ELSE LET closing == {i \in 2..Len(s) : s[i] = Quote}
         IN  IF closing = {} THEN <<"malformed">>
             ELSE LET c == CHOOSE i \in closing : \A j \in closing : i <= j
                      term == SubSeq(s, 2, c - 1)
                      rest == SubSeq(s, c + 1, Len(s))
                  IN  IF rest = <<>> THEN <<term>>
                      ELSE IF HasPrefix(rest, sep)
                           THEN LET more == ReadTerms(SubSeq(rest, Len(sep) + 1, Len(rest)), sep)
                                IN  IF more[1] = "malformed" THEN more
                                    ELSE <<term>> \o more
                           ELSE <<"malformed">>

\* C2: build_fts_query returns the empty string exactly for the empty token
\* list; otherwise its result reads as the tokens in input order, each in
\* double quotes, separated by " AND " when require_all holds and by " OR "
\* when it does not: n quoted terms and n-1 joiners of the chosen kind.
C2_BuildFtsQuery ==
    pc = "return" =>
        /\ fts_q = <<>> <=> ftsTokens = <<>>
        /\ ftsTokens # <<>> =>
              /\ ReadTerms(fts_q, IF require_all THEN JoinerAnd ELSE JoinerOr) = ftsTokens
              /\ Len(ftsTokens) >= 2 =>
                    ReadTerms(fts_q, IF require_all THEN JoinerOr ELSE JoinerAnd)
                        = <<"malformed">>

\* a query of three tokens was built with the AND joiner
C2_Witness ==
    /\ pc = "return"
    /\ Len(ftsTokens) = 3
    /\ require_all
    /\ Len(fts_q) > 3 * 2 + 2 * Len(JoinerAnd)

-----------------------------------------------------------------------------
(* group_tables                                                            *)
(* A frame is [isNone, rows]: None, or the sequence of its rows. A row     *)
(* holds the columns group_tables reads; a missing value (SQL NULL) is     *)
(* None.                                                                   *)

None == "<None>"

\* the pages a hit can carry, in the order sorted() gives their strings
PageOrder == <<"4", "5">>

\* .fillna("").astype(str)
FillnaStr(v) == IF v = None THEN "" ELSE v

\* lines 329-331 without the fillna of table_id
PrepareRow_NoFillTableId(r) ==
    [r EXCEPT !.caption = FillnaStr(@), !.page = FillnaStr(@)]

\* lines 329-332 on one row (the ranks are numbers, which to_numeric keeps)
PrepareRow(r) ==
    [r EXCEPT !.table_id = FillnaStr(@), !.caption = FillnaStr(@), !.page = FillnaStr(@)]

\* gcols
GroupKey(r) == <<r.mrts, r.table_id, r.caption>>

SortedByRank(s) == \A i, j \in 1..Len(s) : i < j => s[i].rank <= s[j].rank

Bijections(n) == {f \in [1..n -> 1..n] : \A i, j \in 1..n : i # j => f[i] # f[j]}

\* sort_values("rank", ascending=True): the default sort is not stable, so rows
\* of equal rank may come out in any order
SortValues(s) ==
    {t \in {[i \in 1..Len(s) |-> s[f[i]]] : f \in Bijections(Len(s))} : SortedByRank(t)}

\* sorted(set(p for p in g["page"] if p.strip()))
SortedPages(g) ==
    SelectSeq(PageOrder, LAMBDA p : \E i \in 1..Len(g) : g[i].page = p)

MergedPagesMax == 10

\* ", ".join(pages[:10]) + ("…" if len(pages) > 10 else "")
PagesMerged(pages) ==
    LET shown == SubSeq(pages, 1, IF Len(pages) > MergedPagesMax THEN MergedPagesMax ELSE Len(pages))
        joined == StrJoin(<<", ">>, [i \in 1..Len(shown) |-> <<shown[i]>>])
    IN  joined \o (IF Len(pages) > MergedPagesMax THEN <<"...">> ELSE <<>>)  \* "..." for the ellipsis

\* g.iloc[0]
BestOf(g) == g[1]

\* the loop over df_sorted.groupby(gcols, dropna=False): one row per key
GroupRows(sorted) ==
    {LET g == SelectSeq(sorted, LAMBDA r : GroupKey(r) = k)
         best == BestOf(g)
     IN  [mrts |-> best.mrts, table_id |-> best.table_id, caption |-> best.caption,
          page |-> best.page, rank |-> best.rank,
          pages_merged |-> PagesMerged(SortedPages(g))]
     : k \in {GroupKey(sorted[i]) : i \in 1..Len(sorted)}}

\* pd.DataFrame(rows).sort_values("rank", ascending=True)
SortedFrames(rowSet) ==
    {t \in [1..Cardinality(rowSet) -> rowSet] :
        /\ \A i, j \in 1..Cardinality(rowSet) : i # j => t[i] # t[j]
        /\ SortedByRank(t)}

\* every frame group_tables can return for frame d
group_tables(d) ==
    IF d.isNone \/ d.rows = <<>> THEN {d}
    ELSE LET prepared == [i \in 1..Len(d.rows) |-> PrepareRow(d.rows[i])]
         IN  UNION {{[isNone |-> FALSE, rows |-> t] : t \in SortedFrames(GroupRows(srt))}
                    : srt \in SortValues(prepared)}

-----------------------------------------------------------------------------
(* Specification of a group_tables call on a result of search_tables       *)

MaxHits == 3

\* rows of the tables table: two pages of one table, a table whose id is
\* missing or empty, a table of another MRTS, a table whose caption is missing
\* or empty, a row without a page
TableRows ==
    {[mrts |-> "MRTS30", table_id |-> "T1", caption |-> "Cap", page |-> "4"],
     [mrts |-> "MRTS30", table_id |-> "T1", caption |-> "Cap", page |-> "5"],
     [mrts |-> "MRTS30", table_id |-> None, caption |-> "Cap", page |-> "4"],
     [mrts |-> "MRTS30", table_id |-> "", caption |-> "Cap", page |-> "5"],
     [mrts |-> "MRTS05", table_id |-> "T1", caption |-> "Cap", page |-> "4"],
     [mrts |-> "MRTS30", table_id |-> "T1", caption |-> None, page |-> "4"],
     [mrts |-> "MRTS30", table_id |-> "T1", caption |-> "", page |-> None]}

\* bm25() values: the lower, the better
Ranks == {-3, -2, -1}

Hits ==
    {[mrts |-> t.mrts, table_id |-> t.table_id, caption |-> t.caption,
      page |-> t.page, rank |-> r] : t \in TableRows, r \in Ranks}

\* search_tables returns its hits ORDER BY rank; None stands for a missing frame
InitGroup ==
    /\ pc = "call"
    /\ \/ df = [isNone |-> TRUE, rows |-> <<>>]
       \/ /\ df \in [isNone : {FALSE}, rows : UNION {[1..k -> Hits] : k \in 0..MaxHits}]
          /\ SortedByRank(df.rows)
    /\ grouped = <<>>
    /\ TkIdle /\ FtsIdle /\ TxtIdle /\ UiIdle

GroupTables ==
    /\ pc = "call"
    /\ grouped' \in group_tables(df)
    /\ pc' = "return"
    /\ UNCHANGED <<df, tkVars, ftsVars, txtVars, uiVars>>

NextGroup == GroupTables

SpecGroup == InitGroup /\ [][NextGroup]_vars

-----------------------------------------------------------------------------
(* C5: properties of group_tables                                          *)

\* the key of a hit as given
RawKey(r) == <<r.mrts, r.table_id, r.caption>>

\* the key of a hit with a missing table_id or caption read as the empty string
NormalKey(r) ==
    <<r.mrts,
      IF r.table_id = None THEN "" ELSE r.table_id,
      IF r.caption = None THEN "" ELSE r.caption>>

MinRank(S) == CHOOSE m \in S : \A x \in S : m <= x

\* the output has as many rows as the input has keys under KeyOf, and for each
\* such key exactly one row, which carries the key (its missing values shown
\* as empty strings) and the lowest rank among the key's hits
OneRowPerKey(KeyOf(_)) ==
    LET in == df.rows
        out == grouped.rows
        keys == {KeyOf(in[i]) : i \in 1..Len(in)}
    IN  /\ Len(out) = Cardinality(keys)
        /\ \A h \in 1..Len(in) :
              \E i \in 1..Len(out) :
                  /\ RawKey(out[i]) = NormalKey(in[h])
                  /\ \A j \in 1..Len(out) : RawKey(out[j]) = NormalKey(in[h]) => j = i
                  /\ out[i].rank =
                        MinRank({in[g].rank : g \in {g \in 1..Len(in) : KeyOf(in[g]) = KeyOf(in[h])}})

Ungrouped == df.isNone \/ df.rows = <<>>

\* C5 (as amended): for every non-empty set of table hits the output of
\* group_tables has exactly one row for each distinct (mrts, table_id, caption)
\* key of the input, a missing table_id or caption counting as the empty
\* string; that row's rank is the lowest rank among the hits of the key; the
\* rows are in non-decreasing rank order; a None or empty input is returned
\* unchanged.
C5_GroupTables ==
    pc = "return" =>
        /\ Ungrouped => grouped = df
        /\ ~Ungrouped =>
              /\ ~grouped.isNone
              /\ OneRowPerKey(NormalKey)
              /\ SortedByRank(grouped.rows)

\* C5 as stated: one row for each distinct key as it stands in the input, where
\* a missing value and an empty string are different values.
C5_GroupTables_AsStated ==
    pc = "return" =>
        /\ Ungrouped => grouped = df
        /\ ~Ungrouped =>
              /\ ~grouped.isNone
              /\ OneRowPerKey(RawKey)
              /\ SortedByRank(grouped.rows)

\* three hits were grouped into two rows: one table hit twice, its best rank
\* not on the first page, and a second table
C5_Witness ==
    /\ pc = "return"
    /\ Len(df.rows) = 3
    /\ Len(grouped.rows) = 2
    /\ \E i \in 1..2 : Len(grouped.rows[i].pages_merged) = 3

-----------------------------------------------------------------------------
(* looks_like_pipe_table and parse_pipe_table                              *)
(* These work on texts of several hundred characters and are written      *)
(* without recursion over the characters.                                  *)

\* the positions of character c in s, in increasing order
PositionsOf(c, s) ==
    LET P == {i \in 1..Len(s) : s[i] = c}
    IN  [k \in 1..Cardinality(P) |-> CHOOSE i \in P : Cardinality({j \in P : j < i}) = k - 1]

\* the pieces of s between the positions pos
PiecesBetween(s, pos) ==
    [k \in 1..(Len(pos) + 1) |->
        SubSeq(s, IF k = 1 THEN 1 ELSE pos[k - 1] + 1,
                  IF k = Len(pos) + 1 THEN Len(s) ELSE pos[k] - 1)]

\* str.split(c): the pieces of s between the occurrences of c
SplitOn(c, s) == PiecesBetween(s, PositionsOf(c, s))

\* s without a final line break
DropFinalBreak(s) == IF s # <<>> /\ s[Len(s)] = "\n" THEN SubSeq(s, 1, Len(s) - 1) ELSE s

\* str.splitlines() of a text whose line breaks are "\n": as split, without
\* the empty piece after a final line break, and no line for the empty text
SplitLines(s) == IF s = <<>> THEN <<>> ELSE SplitOn("\n", DropFinalBreak(s))

\* str.rstrip()
StrRStrip(s) ==
    IF \A i \in 1..Len(s) : s[i] \in Whitespace THEN <<>>
    ELSE SubSeq(s, 1, CHOOSE i \in 1..Len(s) :
                         s[i] \notin Whitespace /\ \A j \in (i + 1)..Len(s) : s[j] \in Whitespace)

\* [l.rstrip() for l in ls]
RStripEach(ls) == [i \in 1..Len(ls) |-> StrRStrip(ls[i])]

\* [l.strip() for l in ls]
StripEach(ls) == [i \in 1..Len(ls) |-> StrStrip(ls[i])]

\* [l.rstrip() for l in txt.strip().splitlines() if l.strip()]
TableLines(txt) ==
    RStripEach(SelectSeq(SplitLines(StrStrip(txt)), LAMBDA l : StrStrip(l) # <<>>))

\* the regex :?-{2,}:? on a whole string
IsDashCell(c) ==
    LET a == IF Len(c) >= 1 /\ c[1] = ":" THEN 2 ELSE 1
        b == IF Len(c) >= a /\ c[Len(c)] = ":" THEN Len(c) - 1 ELSE Len(c)
    IN  /\ b - a + 1 >= 2
        /\ \A i \in a..b : c[i] = "-"

\* of the stripped pieces of a line split at its pipes, the first and the last
\* that are cells: an empty first piece is the space before an opening pipe, an
\* empty last piece the space after a closing one
FirstCell(parts) == IF Len(parts) >= 2 /\ parts[1] = <<>> THEN 2 ELSE 1
LastCell(parts) == IF Len(parts) >= 2 /\ parts[Len(parts)] = <<>> THEN Len(parts) - 1 ELSE Len(parts)

\* two or more cells, all of them dash cells
DashCells(parts) ==
    /\ LastCell(parts) - FirstCell(parts) + 1 >= 2
    /\ \A k \in FirstCell(parts)..LastCell(parts) : IsDashCell(parts[k])

\* sep_re.match(line), sep_re = ^\s*\|?\s*:?-{2,}:?\s*(\|\s*:?-{2,}:?\s*)+\|?\s*$ :
\* split at the pipes, what is left is two or more dash cells, each with
\* blanks around it
SepMatch(line) == DashCells(StripEach(SplitOn("|", line)))

Min(a, b) == IF a <= b THEN a ELSE b
Max(a, b) == IF a >= b THEN a ELSE b

\* the lines range(1, min(len(lines), 4)) looks at, as 1-based positions
SepCandidates(lines) == 2..Min(Len(lines), 4)

\* the candidates that are separator lines
SepLines(lines) == {i \in SepCandidates(lines) : SepMatch(lines[i])}

\* lines 66-77, on the lines of the text
LooksLikePipeLines(lines) ==
    /\ Len(lines) >= 2
    /\ Cardinality({i \in 1..Len(lines) : "|" \in Range(lines[i])}) >= 2
    /\ SepLines(lines) # {}

looks_like_pipe_table(txt) ==
    /\ txt # <<>>
    /\ LooksLikePipeLines(TableLines(txt))

\* row without an opening pipe, and without a closing one
DropOpeningPipe(row) ==
    IF Len(row) >= 1 /\ row[1] = "|" THEN SubSeq(row, 2, Len(row)) ELSE row
DropClosingPipe(row) ==
    IF Len(row) >= 1 /\ row[Len(row)] = "|" THEN SubSeq(row, 1, Len(row) - 1) ELSE row

\* split_row
SplitRow(line) == StripEach(SplitOn("|", DropClosingPipe(DropOpeningPipe(StrStrip(line)))))

\* (r + [""] * maxcols)[:maxcols]
PadTrim(r, maxcols) == [k \in 1..maxcols |-> IF k <= Len(r) THEN r[k] ELSE <<>>]

MaxOf(S, default) == IF S = {} THEN default ELSE CHOOSE m \in S : \A x \in S : x <= m

MinOf(S, default) == IF S = {} THEN default ELSE CHOOSE m \in S : \A x \in S : m <= x

NoFrame == [source |-> "None", empty |-> TRUE, columns |-> <<>>, data |-> <<>>]

\* lines 88-102: the lines after the first separator line, or after the
\* first line when there is no separator
DataLines(lines) == SubSeq(lines, MinOf(SepLines(lines), 1) + 1, Len(lines))

\* [split_row(l) for l in data_lines if l.strip()]
SplitRows(data_lines) == [i \in 1..Len(data_lines) |-> SplitRow(data_lines[i])]

\* max(len(header), max((len(r) for r in rows), default=0))
MaxCols(header, rows) == Max(Len(header), MaxOf({Len(rows[i]) : i \in 1..Len(rows)}, 0))

\* lines 116-123: the frame pd.DataFrame(norm_rows, columns=header) builds; the
\* rows are padded to the header's length, so the constructor has nothing to
\* refuse; .empty holds when there is no data row
NormFrame(header, rows, maxcols) ==
    [source |-> "parse_pipe_table",
     empty |-> rows = <<>>,
     columns |-> PadTrim(header, maxcols),
     data |-> [i \in 1..Len(rows) |-> PadTrim(rows[i], maxcols)]]

FrameOfRows(header, rows) == NormFrame(header, rows, MaxCols(header, rows))

\* lines 84-123, on the lines of the text
FrameOfLines(lines) ==
    IF Len(lines) < 2 THEN NoFrame
    ELSE FrameOfRows(SplitRow(lines[1]), SplitRows(DataLines(lines)))

\* parse_pipe_table: NoFrame for None, else the frame built
parse_pipe_table(txt) == FrameOfLines(TableLines(txt))

-----------------------------------------------------------------------------
(* parse_table_text                                                        *)
(* pandas and csv.Sniffer are libraries: a call of theirs may end in any   *)
(* of the ways the code provides for. A frame they return is known only by *)
(* where it comes from and by whether it is empty.                         *)

LibFrame(src, isEmpty) == [source |-> src, empty |-> isEmpty, columns |-> <<>>, data |-> <<>>]

Attempt(strategy, status, frame) == [strategy |-> strategy, status |-> status, frame |-> frame]

\* the order in which the strategies are tried
Strategies == <<"html", "pipe", "csv", "fwf">>

\* lines 141-146: read_html raises, or returns a list that is empty, or a list
\* whose first frame is returned as it is
HtmlAttempts(vt) ==
    {Attempt("html", "raised", NoFrame), Attempt("html", "no frame", NoFrame)}
        \cup {Attempt("html", "frame", LibFrame("read_html", e)) : e \in BOOLEAN}

\* lines 151-153: the frame is returned unless it is None or empty
PipeAttemptOf(t) ==
    IF t # NoFrame /\ ~t.empty
    THEN {Attempt("pipe", "frame", t)}
    ELSE {Attempt("pipe", "no frame", NoFrame)}

\* lines 149-155
PipeAttempts(vt) ==
    IF looks_like_pipe_table(vt)
    THEN PipeAttemptOf(parse_pipe_table(vt))
    ELSE {Attempt("pipe", "no frame", NoFrame)}

\* what pd.read_csv(io.StringIO(vt), sep=delim) and line 179 make of the text
ReadCsvAttempts ==
    {Attempt("csv", "raised", NoFrame), Attempt("csv", "no frame", NoFrame),
     Attempt("csv", "frame", LibFrame("read_csv", FALSE))}

\* whether "dialect.delimiter = ..." succeeds on the object csv.get_dialect
\* returns: the attributes of a _csv.Dialect cannot be assigned
DialectDelimiterWritable == FALSE

\* lines 158-182. sniff finds a delimiter or raises; when it raises, the
\* handler of lines 165-175 assigns to the delimiter of the excel dialect, and
\* the AttributeError of that assignment ends the strategy at line 181.
CsvAttempts(vt) ==
    UNION {IF sniff = "raised" /\ ~DialectDelimiterWritable
           THEN {Attempt("csv", "raised", NoFrame)}
           ELSE ReadCsvAttempts
           : sniff \in {"raised", "delimiter"}}

\* lines 185-190
FwfAttempts(vt) ==
    {Attempt("fwf", "raised", NoFrame), Attempt("fwf", "no frame", NoFrame),
     Attempt("fwf", "frame", LibFrame("read_fwf", FALSE))}

Attempts(strategy, vt) ==
    CASE strategy = "html" -> HtmlAttempts(vt)
      [] strategy = "pipe" -> PipeAttempts(vt)
      [] strategy = "csv" -> CsvAttempts(vt)
      [] strategy = "fwf" -> FwfAttempts(vt)

\* a strategy whose exception is not caught
OnRaise_Propagate(strategy) == IF strategy = "csv" THEN "propagate" ELSE "next"

\* "except Exception: pass" around every strategy
OnRaise(strategy) == "next"

ParseEnd(outcome, frame, tried) == [outcome |-> outcome, frame |-> frame, tried |-> tried]

\* the strategies from the k-th on, after the attempts in tried
RECURSIVE ParseFrom(_, _, _)
ParseFrom(k, vt, tried) ==
    IF k > Len(Strategies) THEN {ParseEnd("return", NoFrame, tried)}
    ELSE UNION {
            IF a.status = "frame"
            THEN {ParseEnd("return", a.frame, Append(tried, a))}
            ELSE IF a.status = "raised" /\ OnRaise(Strategies[k]) # "next"
                 THEN {ParseEnd("exception", NoFrame, Append(tried, a))}
                 ELSE ParseFrom(k + 1, vt, Append(tried, a))
            : a \in Attempts(Strategies[k], vt)}

NoneText == [isNone |-> TRUE, text |-> <<>>]
SomeText(t) == [isNone |-> FALSE, text |-> t]

\* (value_text or "").strip()
Stripped(v) == IF v.isNone THEN <<>> ELSE StrStrip(v.text)

\* lines 137-192, on the stripped text
ParseStripped(vt) ==
    IF vt = <<>> THEN {ParseEnd("return", NoFrame, <<>>)}
    ELSE ParseFrom(1, vt, <<>>)

\* every way a call parse_table_text(v) can end
parse_table_text(v) == ParseStripped(Stripped(v))

-----------------------------------------------------------------------------
(* Specification of a parse_table_text call                                *)

MaxLines == 3

PreviewLen == 600

\* a line one character longer than the preview of render_table_value_text
LongLine == [i \in 1..(PreviewLen + 1) |-> "x"]

\* the lines a table text is made of: a header, separators, data rows, plain
\* text, a blank line, a long line
SampleLines ==
    {<<"a", "|", "b">>, <<"-", "-", "|", "-", "-">>, <<"|", "1", "|", "2", "|">>,
     <<"x", " ", "y">>, <<" ">>, LongLine}

\* None, or at most MaxLines sample lines joined by line breaks
ValueTexts ==
    {NoneText} \cup
    {SomeText(StrJoin(<<"\n">>, ls)) : ls \in UNION {[1..k -> SampleLines] : k \in 0..MaxLines}}

InitParse ==
    /\ pc = "call"
    /\ value_text \in ValueTexts
    /\ detailed = FALSE
    /\ parsed = <<>>
    /\ screen = <<>>
    /\ TkIdle /\ FtsIdle /\ GrpIdle /\ UiIdle

ParseTableText ==
    /\ pc = "call"
    /\ parsed' \in parse_table_text(value_text)
    /\ pc' = "return"
    /\ UNCHANGED <<value_text, detailed, screen, tkVars, ftsVars, grpVars, uiVars>>

NextParse == ParseTableText

SpecParse == InitParse /\ [][NextParse]_vars

-----------------------------------------------------------------------------
(* render_table_value_text                                                 *)
(* The elements a call puts on the page, in order. An expander is one      *)
(* element: its label, the element inside it and that element's text.      *)

Element(widget, label, inner, text) ==
    [widget |-> widget, label |-> label, inner |-> inner, text |-> text]

NoContentInfo ==
    Element("st.info", "No table content found in database for this table.", "", <<>>)

RawTableExpander(vt) == Element("st.expander", "Show raw table text", "st.code", vt)

Ellipsis == <<"...">>   \* the one character U+2026

\* the preview without the ellipsis
Preview_NoEllipsis(vt) == SubSeq(vt, 1, Min(Len(vt), PreviewLen))

\* vt[:600] + ("…" if len(vt) > 600 else "")
Preview(vt) ==
    SubSeq(vt, 1, Min(Len(vt), PreviewLen)) \o (IF Len(vt) > PreviewLen THEN Ellipsis ELSE <<>>)

\* lines 211-222: the frame, the download button unless to_csv raised, and in
\* the detailed view the raw text
DataframeBranch(vt, det) ==
    {<<Element("st.dataframe", "", "", <<>>)>>
        \o button
        \o (IF det THEN <<RawTableExpander(vt)>> ELSE <<>>)
     : button \in {<<>>, <<Element("st.download_button", "Download CSV", "", <<>>)>>}}

\* lines 225-230
MarkdownBranch(vt, det) ==
    {<<Element("st.markdown", "", "", vt)>> \o (IF det THEN <<RawTableExpander(vt)>> ELSE <<>>)}

\* lines 233-242
TextBranch(vt, det) ==
    IF det
    THEN {<<Element("st.write", "", "", vt),
            Element("st.expander", "Show raw OCR/text", "st.code", vt)>>}
    ELSE {<<Element("st.write", "", "", Preview(vt)),
            Element("st.expander", "Show full text", "st.write", vt)>>}

RenderEnd(p, els) == [parsed |-> p, screen |-> els]

NotParsed == ParseEnd("not called", NoFrame, <<>>)

\* lines 211-242: the elements emitted after parse_table_text ended as p
RenderParsed(p, vt, det) ==
    IF p.outcome = "exception" THEN {RenderEnd(p, <<>>)}
    ELSE IF p.frame # NoFrame /\ ~p.frame.empty
         THEN {RenderEnd(p, els) : els \in DataframeBranch(vt, det)}
         ELSE IF looks_like_pipe_table(vt)
              THEN {RenderEnd(p, els) : els \in MarkdownBranch(vt, det)}
              ELSE {RenderEnd(p, els) : els \in TextBranch(vt, det)}

\* lines 203-242, on the stripped text
RenderStripped(vt, det) ==
    IF vt = <<>> THEN {RenderEnd(NotParsed, <<NoContentInfo>>)}
    ELSE UNION {RenderParsed(p, vt, det) : p \in parse_table_text(SomeText(vt))}

\* every way a call render_table_value_text(v, det) can end: how its call of
\* parse_table_text ended, and the elements emitted
render_table_value_text(v, det) == RenderStripped(Stripped(v), det)

-----------------------------------------------------------------------------
(* Specification of a render_table_value_text call                         *)

InitRender ==
    /\ pc = "call"
    /\ value_text \in ValueTexts
    /\ detailed \in BOOLEAN
    /\ parsed = <<>>
    /\ screen = <<>>
    /\ TkIdle /\ FtsIdle /\ GrpIdle /\ UiIdle

RenderTableValueText ==
    /\ pc = "call"
    /\ \E end \in render_table_value_text(value_text, detailed) :
          /\ parsed' = end.parsed
          /\ screen' = end.screen
    /\ pc' = "return"
    /\ UNCHANGED <<value_text, detailed, tkVars, ftsVars, grpVars, uiVars>>

NextRender == RenderTableValueText

SpecRender == InitRender /\ [][NextRender]_vars

-----------------------------------------------------------------------------
(* C6: properties of parse_table_text                                      *)

FixedOrder == <<"html", "pipe", "csv", "fwf">>

\* C6: parse_table_text tries HTML table, Markdown pipe table, CSV/TSV and
\* fixed-width in this order, each one only after all before it have failed,
\* and returns the frame of the first that succeeds; a strategy that raises
\* passes on to the next and its exception never leaves the call; blank or
\* None input, and input on which all four fail, returns None.
C6_ParseTableText ==
    pc = "return" =>
        LET tried == parsed.tried
            n == Len(tried)
        IN  /\ parsed.outcome = "return"
            /\ Stripped(value_text) = <<>> => (n = 0 /\ parsed.frame = NoFrame)
            /\ Stripped(value_text) # <<>> => n >= 1
            /\ n <= Len(FixedOrder)
            /\ \A i \in 1..n : tried[i].strategy = FixedOrder[i]
            /\ \A i \in 1..(n - 1) : tried[i].status \in {"raised", "no frame"}
            /\ (n >= 1 /\ tried[n].status = "frame") =>
                  (parsed.frame = tried[n].frame /\ parsed.frame # NoFrame)
            /\ (n >= 1 /\ tried[n].status # "frame") =>
                  (n = Len(FixedOrder) /\ parsed.frame = NoFrame)

\* the HTML strategy raised, the text was no pipe table, the CSV strategy
\* raised, and the fixed-width frame was returned
C6_Witness ==
    /\ pc = "return"
    /\ Len(parsed.tried) = 4
    /\ parsed.tried[1].status = "raised"
    /\ parsed.tried[3].status = "raised"
    /\ parsed.frame.source = "read_fwf"

-----------------------------------------------------------------------------
(* C7: properties of render_table_value_text                               *)

\* the elements that show the table itself, one per rendering branch
BranchWidgets == {"st.info", "st.dataframe", "st.markdown", "st.write"}

Shown(widget) == \E i \in 1..Len(screen) : screen[i].widget = widget

RawExpanderShown ==
    \E i \in 1..Len(screen) :
        screen[i].widget = "st.expander" /\ screen[i].label = "Show raw table text"

ParsedNonEmpty == parsed.frame # NoFrame /\ ~parsed.frame.empty

\* C7: render_table_value_text takes exactly one rendering branch per call:
\* blank text shows only the 'No table content' notice; text that parses to a
\* non-empty DataFrame is rendered as a dataframe; otherwise text that looks
\* like a pipe table is rendered as markdown; otherwise it is shown as text,
\* the non-detailed view showing the first 600 characters, followed by an
\* ellipsis exactly when the text is longer than 600 characters. The raw-text
\* expander of the dataframe and markdown branches appears exactly when
\* detailed is true.
C7_RenderTableValueText ==
    pc = "return" =>
        LET vt == Stripped(value_text)
            branch == CASE vt = <<>> -> "st.info"
                        [] vt # <<>> /\ ParsedNonEmpty -> "st.dataframe"
                        [] vt # <<>> /\ ~ParsedNonEmpty /\ looks_like_pipe_table(vt) -> "st.markdown"
                        [] OTHER -> "st.write"
        IN  /\ Cardinality({i \in 1..Len(screen) : screen[i].widget \in BranchWidgets}) = 1
            /\ screen[1].widget = branch
            /\ branch = "st.info" => screen = <<NoContentInfo>>
            /\ branch = "st.markdown" => screen[1].text = vt
            /\ branch \in {"st.dataframe", "st.markdown"} => (RawExpanderShown <=> detailed)
            /\ branch \in {"st.info", "st.write"} => ~RawExpanderShown
            /\ (branch = "st.write" /\ detailed) => screen[1].text = vt
            /\ (branch = "st.write" /\ ~detailed) =>
                  /\ Len(vt) <= PreviewLen => screen[1].text = vt
                  /\ Len(vt) > PreviewLen =>
                        /\ Len(screen[1].text) = PreviewLen + 1
                        /\ SubSeq(screen[1].text, 1, PreviewLen) = SubSeq(vt, 1, PreviewLen)
                        /\ screen[1].text[PreviewLen + 1] = Ellipsis[1]

\* a text longer than the preview, which no strategy parsed, was shown in the
\* non-detailed view
C7_Witness ==
    /\ pc = "return"
    /\ ~detailed
    /\ Len(Stripped(value_text)) > PreviewLen
    /\ Len(parsed.tried) = 4
    /\ screen[1].widget = "st.write"
    /\ Len(screen[1].text) = PreviewLen + 1

-----------------------------------------------------------------------------
(* The script of app.py under Streamlit                                    *)
(* Streamlit runs the script from top to bottom once per interaction, each *)
(* browser session in a thread of its own. A session's log lists what its  *)
(* current run has done so far.                                            *)

NumSessions == 2

Sessions == 1..NumSessions

\* the script runs started in all sessions together
MaxRuns == 4

RECURSIVE RunsOf(_)
RunsOf(S) ==
    IF S = {} THEN 0
    ELSE LET s == CHOOSE x \in S : TRUE IN sess[s].run + RunsOf(S \ {s})

\* what a user may have typed into the search box: nothing, a blank, a
\* stop-word, a key word
UIQueries == {<<>>, <<" ">>, <<"a">>, <<"s", "s">>}

Exec(s) == <<s, sess[s].run>>

Logged(s, events) == [sess EXCEPT ![s].log = @ \o events]

\* st.stop() missing after a failed check
StopOrGo_NoStop(passed, next) == next

\* after a check: on to the next statement, or st.stop() ends the run
StopOrGo(passed, next) == IF passed THEN next ELSE "idle"

\* a connection made anew at every call
CachedOrFresh_NoCache(cached, fresh) == fresh

\* st.cache_resource: the cached object when there is one
CachedOrFresh(cached, fresh) == IF cached # 0 THEN cached ELSE fresh

InitScript ==
    /\ pc = "script"
    /\ dirExists \in BOOLEAN
    /\ fileExists \in BOOLEAN
    /\ fileExists => dirExists
    /\ dbTables \in BOOLEAN
    /\ dbTables => fileExists
    /\ mrtsCache = FALSE
    /\ mrtsLock = 0
    /\ connCache = 0
    /\ conns = <<>>
    /\ sess = [s \in Sessions |->
                 [pc |-> "idle", run |-> 0, query |-> <<>>, conn |-> 0, log |-> <<>>]]
    /\ TkIdle /\ FtsIdle /\ GrpIdle /\ TxtIdle

UiLeaves == <<pc, tkVars, ftsVars, grpVars, txtVars>>

\* the user creates data/
MakeDataDir ==
    /\ ~dirExists
    /\ dirExists' = TRUE
    /\ UNCHANGED <<fileExists, dbTables, mrtsCache, mrtsLock, connCache, conns, sess, UiLeaves>>

\* the user uploads mrts.db into data/: a database with the tables and their
\* FTS tables, or one without
UploadDb ==
    /\ dirExists /\ ~fileExists
    /\ fileExists' = TRUE
    /\ dbTables' \in BOOLEAN
    /\ UNCHANGED <<dirExists, mrtsCache, mrtsLock, connCache, conns, sess, UiLeaves>>

\* a run starts: the session's first with the empty search box (value=""),
\* a later one with what the user typed
StartRun(s) ==
    /\ sess[s].pc = "idle"
    /\ RunsOf(Sessions) < MaxRuns
    /\ \E typed \in UIQueries :
          /\ sess[s].run = 0 => typed = <<>>
          /\ sess' = [sess EXCEPT ![s] = [pc |-> "dir_check", run |-> @.run + 1,
                                         query |-> typed, conn |-> 0, log |-> <<>>]]
    /\ UNCHANGED <<dirExists, fileExists, dbTables, mrtsCache, mrtsLock, connCache, conns, UiLeaves>>

\* lines 359-361
CheckDir(s) ==
    /\ sess[s].pc = "dir_check"
    /\ sess' = [Logged(s, IF dirExists THEN <<"isdir: yes">>
                          ELSE <<"isdir: no", "st.error", "st.stop">>)
                  EXCEPT ![s].pc = StopOrGo(dirExists, "file_check")]
    /\ UNCHANGED <<dirExists, fileExists, dbTables, mrtsCache, mrtsLock, connCache, conns, UiLeaves>>

\* lines 363-365
CheckFile(s) ==
    /\ sess[s].pc = "file_check"
    /\ sess' = [Logged(s, IF fileExists THEN <<"isfile: yes">>
                          ELSE <<"isfile: no", "st.error", "st.stop">>)
                  EXCEPT ![s].pc = StopOrGo(fileExists, "get_mrts_list")]
    /\ UNCHANGED <<dirExists, fileExists, dbTables, mrtsCache, mrtsLock, connCache, conns, UiLeaves>>

\* line 367, get_mrts_list under st.cache_data: the cached value, or (one
\* session at a time) line 253 opens a connection of its own
GetMrtsListEnter(s) ==
    /\ sess[s].pc = "get_mrts_list"
    /\ \/ /\ mrtsCache
          /\ sess' = [Logged(s, <<"get_mrts_list", "cache_data: hit">>)
                        EXCEPT ![s].pc = "query_check"]
          /\ UNCHANGED <<mrtsLock, conns>>
       \/ /\ ~mrtsCache /\ mrtsLock = 0
          /\ mrtsLock' = s
          /\ conns' = Append(conns, [kind |-> "get_mrts_list", open |-> TRUE, users |-> {Exec(s)}])
          /\ sess' = [Logged(s, <<"get_mrts_list", "sqlite3.connect">>)
                        EXCEPT ![s].pc = "mrts_reading", ![s].conn = Len(conns) + 1]
    /\ UNCHANGED <<dirExists, fileExists, dbTables, mrtsCache, connCache, UiLeaves>>

\* lines 254-262: the reads succeed and the list is cached, or one raises and
\* the run ends with the exception; either way finally closes the connection
GetMrtsListExit(s) ==
    /\ sess[s].pc = "mrts_reading"
    /\ conns' = [conns EXCEPT ![sess[s].conn].open = FALSE]
    /\ mrtsLock' = 0
    /\ \/ /\ mrtsCache' = TRUE
          /\ sess' = [Logged(s, <<"conn.close">>) EXCEPT ![s].pc = "query_check", ![s].conn = 0]
       \/ /\ mrtsCache' = mrtsCache
          /\ sess' = [Logged(s, <<"conn.close", "exception">>)
                        EXCEPT ![s].pc = "idle", ![s].conn = 0]
    /\ UNCHANGED <<dirExists, fileExists, dbTables, connCache, UiLeaves>>

\* lines 368-383: the widgets, then the check of the query
CheckQuery(s) ==
    /\ sess[s].pc = "query_check"
    /\ LET given == StrStrip(sess[s].query) # <<>>
       IN  sess' = [Logged(s, IF given THEN <<"query: given">>
                              ELSE <<"query: blank", "st.info", "st.stop">>)
                      EXCEPT ![s].pc = StopOrGo(given, "get_conn")]
    /\ UNCHANGED <<dirExists, fileExists, dbTables, mrtsCache, mrtsLock, connCache, conns, UiLeaves>>

\* line 386, get_conn under st.cache_resource
GetConn(s) ==
    /\ sess[s].pc = "get_conn"
    /\ LET c == CachedOrFresh(connCache, Len(conns) + 1)
       IN  /\ conns' = IF c = Len(conns) + 1
                       THEN Append(conns, [kind |-> "get_conn", open |-> TRUE, users |-> {Exec(s)}])
                       ELSE [conns EXCEPT ![c].users = @ \cup {Exec(s)}]
           /\ connCache' = c
           /\ sess' = [Logged(s, <<"get_conn">>) EXCEPT ![s].pc = "search_clauses", ![s].conn = c]
    /\ UNCHANGED <<dirExists, fileExists, dbTables, mrtsCache, mrtsLock, UiLeaves>>

\* what search_clauses and search_tables do with the query (lines 265-290,
\* 293-318; require_all is the checkbox's default)
SearchResult(query) ==
    IF ~dbTables THEN "no table"
    ELSE IF tokenize(query) = <<>> THEN "no tokens"
    ELSE IF build_fts_query(tokenize(query), TRUE) # <<>> THEN "MATCH" ELSE "empty MATCH"

\* line 387
SearchClauses(s) ==
    /\ sess[s].pc = "search_clauses"
    /\ sess' = [Logged(s, <<"search_clauses", SearchResult(sess[s].query)>>)
                  EXCEPT ![s].pc = "search_tables"]
    /\ UNCHANGED <<dirExists, fileExists, dbTables, mrtsCache, mrtsLock, connCache, conns, UiLeaves>>

\* lines 388-435: the second search, then the results are grouped and shown;
\* the cached connection stays open
SearchTables(s) ==
    /\ sess[s].pc = "search_tables"
    /\ sess' = [Logged(s, <<"search_tables", SearchResult(sess[s].query), "results shown">>)
                  EXCEPT ![s].pc = "idle", ![s].conn = 0]
    /\ UNCHANGED <<dirExists, fileExists, dbTables, mrtsCache, mrtsLock, connCache, conns, UiLeaves>>

NextScript ==
    \/ MakeDataDir
    \/ UploadDb
    \/ \E s \in Sessions :
          \/ StartRun(s)
          \/ CheckDir(s)
          \/ CheckFile(s)
          \/ GetMrtsListEnter(s)
          \/ GetMrtsListExit(s)
          \/ CheckQuery(s)
          \/ GetConn(s)
          \/ SearchClauses(s)
          \/ SearchTables(s)

SpecScript == InitScript /\ [][NextScript]_vars

-----------------------------------------------------------------------------
(* C3: the guards of the script                                            *)

CheckOrder == <<"isdir", "isfile", "query">>

Passed == [isdir |-> "isdir: yes", isfile |-> "isfile: yes", query |-> "query: given"]
Failed == [isdir |-> "isdir: no", isfile |-> "isfile: no", query |-> "query: blank"]
Message == [isdir |-> "st.error", isfile |-> "st.error", query |-> "st.info"]

CheckEvents == {Passed[k] : k \in DOMAIN Passed} \cup {Failed[k] : k \in DOMAIN Failed}

SearchEvents == {"search_clauses", "search_tables"}

\* calls that open the database, and the opening itself
DatabaseEvents == {"get_mrts_list", "get_conn", "sqlite3.connect"}

Before(log, i, e) == \E j \in 1..(i - 1) : log[j] = e

\* C3: in every run the checks happen in the order data folder, database
\* file, query; a check that fails shows its message and stops the run, and
\* no search is executed in that run; get_mrts_list and get_conn are not
\* called, and no connection is opened, unless the folder check and the file
\* check have passed.
C3_ScriptGuards ==
    pc = "script" =>
        \A s \in Sessions :
            LET log == sess[s].log
                checks == SelectSeq(log, LAMBDA e : e \in CheckEvents)
                n == Len(checks)
            IN  /\ n <= Len(CheckOrder)
                /\ \A i \in 1..n : checks[i] \in {Passed[CheckOrder[i]], Failed[CheckOrder[i]]}
                /\ \A i \in 1..(n - 1) : checks[i] = Passed[CheckOrder[i]]
                /\ (n >= 1 /\ checks[n] = Failed[CheckOrder[n]]) =>
                      /\ Len(log) >= 3
                      /\ SubSeq(log, Len(log) - 2, Len(log))
                            = <<Failed[CheckOrder[n]], Message[CheckOrder[n]], "st.stop">>
                      /\ sess[s].pc = "idle"
                      /\ \A i \in 1..Len(log) : log[i] \notin SearchEvents
                /\ \A i \in 1..Len(log) :
                      log[i] \in SearchEvents =>
                          \A k \in DOMAIN Passed : Before(log, i, Passed[k])
                /\ \A i \in 1..Len(log) :
                      log[i] \in DatabaseEvents =>
                          Before(log, i, Passed.isdir) /\ Before(log, i, Passed.isfile)

\* one session's run was stopped by the blank query after it had read the
\* MRTS list, and another's went on to both searches
C3_Witness ==
    /\ pc = "script"
    /\ \E s, t \in Sessions :
          /\ sess[s].pc = "idle"
          /\ Len(sess[s].log) > 3
          /\ sess[s].log[Len(sess[s].log)] = "st.stop"
          /\ \E i \in 1..Len(sess[s].log) : sess[s].log[i] = "sqlite3.connect"
          /\ \E i \in 1..Len(sess[t].log) : sess[t].log[i] = "search_tables"

-----------------------------------------------------------------------------
(* C4: what script executions share                                        *)

\* the session is between get_conn and the end of its searches
Searching(s) == sess[s].pc \in {"search_clauses", "search_tables"}

ConnsOf(kind) == {c \in 1..Len(conns) : conns[c].kind = kind}

\* C4 (as amended): the operations of one script execution are synchronous,
\* and the connection get_mrts_list opens belongs to that execution alone and
\* is closed before it returns; but get_conn's connection is made once and
\* cached, and get_mrts_list's result is cached: every execution that searches,
\* in whatever session, uses that one connection, which is never closed, so two
\* executions can use it at the same time.
C4_SharedConnection ==
    pc = "script" =>
        /\ \A c \in ConnsOf("get_mrts_list") :
              /\ Cardinality(conns[c].users) = 1
              /\ conns[c].open =>
                    \E s \in Sessions :
                        /\ conns[c].users = {Exec(s)}
                        /\ sess[s].pc = "mrts_reading"
                        /\ sess[s].conn = c
                        /\ mrtsLock = s
        /\ Cardinality(ConnsOf("get_conn")) <= 1
        /\ \A c \in ConnsOf("get_conn") : conns[c].open /\ connCache = c
        /\ \A s \in Sessions :
              Searching(s) =>
                  /\ connCache # 0
                  /\ sess[s].conn = connCache
                  /\ Exec(s) \in conns[connCache].users

\* C4 as stated: two executions never use the same resource at the same time.
C4_NoSharedResource ==
    pc = "script" =>
        \A s, t \in Sessions :
            (s # t /\ Searching(s) /\ Searching(t)) => sess[s].conn # sess[t].conn

\* two sessions are searching on the same connection, and one of them got its
\* MRTS list from the cache
C4_Witness ==
    /\ pc = "script"
    /\ \E s, t \in Sessions :
          /\ s # t
          /\ Searching(s) /\ Searching(t)
          /\ sess[s].conn = sess[t].conn
          /\ \E i \in 1..Len(sess[t].log) : sess[t].log[i] = "cache_data: hit"

====
